---- MODULE Spec2Model ----
(***************************************************************************)
(* A model of the imaginify server actions (the cached database            *)
(* connection, the User and Transaction persistence operations, the        *)
(* credit ledger, the checkout redirect) and of the client-side            *)
(* TransformationForm component.                                           *)
(*                                                                         *)
(* Spec      : the server process handling concurrent server-action calls. *)
(* SpecForm  : one mounted TransformationForm and the events it receives.  *)
(***************************************************************************)
EXTENDS Integers, Sequences, FiniteSets, TLC

\* ------------------------------------------------------------------ bounds

\* Server-action calls the process receives in one run.
MaxCalls == 2
\* Credit balance every stored user starts with.
InitBalance == 1
\* The form's creditBalance prop ranges over -MaxBalance..MaxBalance.
MaxBalance == 1
\* The per-transformation fee ranges over -MaxFee..MaxFee.
MaxFee == 1
\* Invocations of the input handler within one debounce window.
MaxBurst == 5
\* Clock ticks that make up one debounce delay.
TicksPerWindow == 1
\* Apply Transformation clicks in one run.
MaxApplies == 2

\* ------------------------------------------------------- server: the state

VARIABLES
    MONGODB_URL,    \* TRUE iff process.env.MONGODB_URL is defined
    cached,         \* the process-wide { conn, promise } object; 0 is null
    promises,       \* promises mongoose.connect has returned, by promise id
    users,          \* the User collection: _id -> document
    transactions,   \* the Transaction collection: a set of documents
    sessions,       \* checkout sessions requested of the payment provider
    calls           \* the server-action calls received so far, by arrival

serverVars == <<MONGODB_URL, cached, promises, users, transactions, sessions, calls>>

\* --------------------------------------------------------- form: the state

VARIABLES
    type,                   \* prop: the transformation kind of the page
    action,                 \* prop: "Add" or "Update"
    data,                   \* prop: the stored image (Update), else null
    creditBalance,          \* prop: the user's balance when the page rendered
    creditFee,              \* the fee constant
    image,                  \* useState(data)
    newTransformation,      \* useState(null): the pending configuration
    isSubmitting,           \* useState(false)
    isTransforming,         \* useState(false)
    transformationConfig,   \* useState(config): the committed configuration
    timer,                  \* the debounce timer and the callback it holds
    deductions,             \* updateCredits requests the form has issued
    applies,                \* history: runs of onTransformHandler
    appliedNull,            \* history: some run read a null pending configuration
    burst,                  \* history: input-handler invocations in this window
    lastTyped,              \* history: the field and value of the last invocation
    commits                 \* history: pending-configuration commits of this window

formVars == <<type, action, data, creditBalance, creditFee, image,
              newTransformation, isSubmitting, isTransforming,
              transformationConfig, timer, deductions, applies, appliedNull,
              burst, lastTyped, commits>>

vars == <<serverVars, formVars>>

\* ---------------------------------------------------- server: value spaces

\* _id of the stored User documents.
UserIds == {1}
\* _id values a caller may pass: the stored ones and 0, which matches nothing.
AnyId == UserIds \cup {0}
\* The identity-provider subject id of the user stored under _id i.
ClerkIdOf(i) == 100 + i
\* Credit deltas a ledger call may carry: a deduction and a grant.
Deltas == {-2, 1}
\* Purchasable plans: name, price in major currency units, credits granted.
Plans == { [plan |-> "Pro", amount |-> 10, credits |-> 2],
           [plan |-> "Premium", amount |-> 199, credits |-> 3] }
NoPlan == [plan |-> "", amount |-> 0, credits |-> 0]

Ops == {"connectToDatabase", "getUserById", "updateCredits",
        "createTransaction", "checkoutCredits",
        "createUser", "updateUser", "deleteUser"}
\* The profile fields createUser and updateUser are given.
UserParams == {[username |-> "bob"]}
NoUser == [username |-> ""]
\* No document: what a find that matched nothing leaves in a variable.
NoDoc == [_id |-> 0, clerkId |-> 0, username |-> "", creditBalance |-> 0]

\* What an async function has produced so far.
Pending == [kind |-> "pending", val |-> 0]
Undefined == [kind |-> "undefined", val |-> 0]
Threw == [kind |-> "throw", val |-> 0]
Value(v) == [kind |-> "value", val |-> v]
Redirect(v) == [kind |-> "redirect", val |-> v]
ReturnedNull == [kind |-> "null", val |-> 0]

\* A call as it arrives: operation, arguments, and the position it is at.
NewCall(o, id, d, p) ==
    [op |-> o, uid |-> id, delta |-> d, plan |-> p,
     pc |-> IF o = "checkoutCredits" THEN "session" ELSE "connect",
     nested |-> FALSE,      \* inside createTransaction's updateCredits
     awaitP |-> 0,          \* the promise connectToDatabase awaits
     connRet |-> 0,         \* what connectToDatabase last returned
     ucRet |-> Pending,     \* what the nested updateCredits returned
     txn |-> 0,             \* _id of the Transaction this call inserted
     user |-> NoUser,       \* the fields createUser or updateUser was given
     found |-> NoDoc,       \* deleteUser's userToDelete
     storeOps |-> 0,        \* document operations this call has issued
     ret |-> Pending]

CallIds == 1..Len(calls)

InitServer ==
    /\ MONGODB_URL \in BOOLEAN
    /\ cached = [conn |-> 0, promise |-> 0]
    /\ promises = <<>>
    /\ users = [i \in UserIds |->
                  [clerkId |-> ClerkIdOf(i), username |-> "ann",
                   creditBalance |-> InitBalance]]
    /\ transactions = {}
    /\ sessions = <<>>
    /\ calls = <<>>

\* ------------------------------------------------ server: error handling

\* handleError(error): logs the error and returns nothing; the enclosing
\* server action therefore resolves to undefined.
HandleError == Undefined

\* The call record after an exception is thrown at its current position.
\* connectToDatabase has no handler; every server action catches and hands
\* the error to handleError. Inside createTransaction the nested
\* updateCredits absorbs its own error and resolves to undefined, so
\* createTransaction resumes after its await.
Throw(cr) ==
    IF cr.op = "connectToDatabase"
    THEN [cr EXCEPT !.ret = Threw, !.pc = "done"]
    ELSE IF cr.nested
    THEN [cr EXCEPT !.ucRet = HandleError, !.nested = FALSE, !.pc = "return"]
    ELSE [cr EXCEPT !.ret = HandleError, !.pc = "done"]

\* The call record once connectToDatabase has returned handle h to it.
Connected(cr, h) ==
    IF cr.op = "connectToDatabase"
    THEN [cr EXCEPT !.connRet = h, !.ret = Value(h), !.pc = "done"]
    ELSE [cr EXCEPT !.connRet = h, !.pc = "store"]

\* The call record once its findOneAndUpdate has returned the updated
\* document: updateCredits returns it, to its caller or to the
\* createTransaction awaiting it.
Credited(cr, after) ==
    IF cr.nested
    THEN [cr EXCEPT !.ucRet = Value(after), !.nested = FALSE, !.pc = "return"]
    ELSE [cr EXCEPT !.ret = Value(after), !.pc = "done"]

\* The call record once it has issued one more document operation.
Stored(cr) == [cr EXCEPT !.storeOps = @ + 1]

\* The User document stored under _id i in the collection us.
DocOf(us, i) ==
    [_id |-> i, clerkId |-> us[i].clerkId, username |-> us[i].username,
     creditBalance |-> us[i].creditBalance]

\* ------------------------------------------------- server: the operations

\* A request arrives and its server action starts.
Start(o, id, d, p) ==
    /\ Len(calls) < MaxCalls
    /\ calls' = Append(calls, NewCall(o, id, d, p))
    /\ UNCHANGED formVars
    /\ UNCHANGED <<MONGODB_URL, cached, promises, users, transactions, sessions>>

\* Faulty variant of ConnectEnter: mongoose.connect is called whenever no
\* handle is cached yet, the cached promise being overwritten.
ConnectEnterReconnects(c) ==
    /\ calls[c].pc = "connect"
    /\ IF cached.conn # 0
       THEN /\ calls' = [calls EXCEPT ![c] = Connected(@, cached.conn)]
            /\ UNCHANGED <<cached, promises>>
       ELSE IF ~MONGODB_URL
       THEN /\ calls' = [calls EXCEPT ![c] = Throw(@)]
            /\ UNCHANGED <<cached, promises>>
       ELSE /\ promises' = Append(promises, "pending")
            /\ cached' = [cached EXCEPT !.promise = Len(promises) + 1]
            /\ calls' = [calls EXCEPT ![c].awaitP = Len(promises) + 1,
                                      ![c].pc = "awaitConn"]
    /\ UNCHANGED formVars
    /\ UNCHANGED <<MONGODB_URL, users, transactions, sessions>>

\* connectToDatabase up to its await: the cached handle, the configuration
\* error, or the (new or already cached) connection promise.
ConnectEnter(c) ==
    /\ calls[c].pc = "connect"
    /\ IF cached.conn # 0
       THEN /\ calls' = [calls EXCEPT ![c] = Connected(@, cached.conn)]
            /\ UNCHANGED <<cached, promises>>
       ELSE IF ~MONGODB_URL
       THEN /\ calls' = [calls EXCEPT ![c] = Throw(@)]
            /\ UNCHANGED <<cached, promises>>
       ELSE LET fresh == cached.promise = 0
                p == IF fresh THEN Len(promises) + 1 ELSE cached.promise
            IN /\ promises' = IF fresh THEN Append(promises, "pending")
                                       ELSE promises
               /\ cached' = [cached EXCEPT !.promise = p]
               /\ calls' = [calls EXCEPT ![c].awaitP = p, ![c].pc = "awaitConn"]
    /\ UNCHANGED formVars
    /\ UNCHANGED <<MONGODB_URL, users, transactions, sessions>>

\* mongoose.connect settles: the connection opens or the attempt fails.
MongooseConnectSettles(p, ok) ==
    /\ p \in 1..Len(promises)
    /\ promises[p] = "pending"
    /\ promises' = [promises EXCEPT ![p] = IF ok THEN "fulfilled" ELSE "rejected"]
    /\ UNCHANGED formVars
    /\ UNCHANGED <<MONGODB_URL, cached, users, transactions, sessions, calls>>

\* Faulty variant of ConnectResume: a rejection clears the cached promise, so
\* that the next call connects again.
ConnectResumeForgets(c) ==
    /\ calls[c].pc = "awaitConn"
    /\ promises[calls[c].awaitP] # "pending"
    /\ IF promises[calls[c].awaitP] = "fulfilled"
       THEN /\ cached' = [cached EXCEPT !.conn = calls[c].awaitP]
            /\ calls' = [calls EXCEPT ![c] = Connected(@, calls[c].awaitP)]
       ELSE /\ calls' = [calls EXCEPT ![c] = Throw(@)]
            /\ cached' = [cached EXCEPT !.promise = 0]
    /\ UNCHANGED formVars
    /\ UNCHANGED <<MONGODB_URL, promises, users, transactions, sessions>>

\* connectToDatabase after its await: cache the handle and return it, or
\* rethrow the rejection. The handle of promise p is p.
ConnectResume(c) ==
    /\ calls[c].pc = "awaitConn"
    /\ promises[calls[c].awaitP] # "pending"
    /\ IF promises[calls[c].awaitP] = "fulfilled"
       THEN /\ cached' = [cached EXCEPT !.conn = calls[c].awaitP]
            /\ calls' = [calls EXCEPT ![c] = Connected(@, calls[c].awaitP)]
       ELSE /\ calls' = [calls EXCEPT ![c] = Throw(@)]
            /\ UNCHANGED cached
    /\ UNCHANGED formVars
    /\ UNCHANGED <<MONGODB_URL, promises, users, transactions, sessions>>

\* Faulty variant of GetUserById: the null of a find that matched nothing is
\* returned (as the value 0) instead of being thrown as "User not found".
GetUserByIdReturnsNull(c, ok) ==
    /\ calls[c].pc = "store"
    /\ calls[c].op = "getUserById"
    /\ LET found == {i \in DOMAIN users : users[i].clerkId = calls[c].uid}
       IN calls' = [calls EXCEPT ![c] = Stored(
              IF ~ok THEN Throw(@)
              ELSE [calls[c] EXCEPT
                      !.ret = Value(IF found = {} THEN 0
                                    ELSE users[CHOOSE i \in found : TRUE].creditBalance),
                      !.pc = "done"])]
    /\ UNCHANGED formVars
    /\ UNCHANGED <<MONGODB_URL, cached, promises, users, transactions, sessions>>

\* getUserById: User.findOne({ clerkId }), "User not found" when null.
GetUserById(c, ok) ==
    /\ calls[c].pc = "store"
    /\ calls[c].op = "getUserById"
    /\ LET found == {i \in DOMAIN users : users[i].clerkId = calls[c].uid}
       IN calls' = [calls EXCEPT ![c] = Stored(
              IF ok /\ found # {}
              THEN [calls[c] EXCEPT
                      !.ret = Value(users[CHOOSE i \in found : TRUE].creditBalance),
                      !.pc = "done"]
              ELSE Throw(@))]
    /\ UNCHANGED formVars
    /\ UNCHANGED <<MONGODB_URL, cached, promises, users, transactions, sessions>>

\* Faulty variant of UpdateCredits: the balance is floored at zero.
UpdateCreditsFloored(c, ok) ==
    /\ calls[c].pc = "store"
    /\ calls[c].op = "updateCredits" \/ calls[c].nested
    /\ LET id == calls[c].uid
           hit == ok /\ id \in DOMAIN users
           sum == users[id].creditBalance + calls[c].delta
           after == IF sum < 0 THEN 0 ELSE sum
       IN /\ users' = IF hit THEN [users EXCEPT ![id].creditBalance = after]
                             ELSE users
          /\ calls' = [calls EXCEPT ![c] =
                Stored(IF hit THEN Credited(@, after) ELSE Throw(@))]
    /\ UNCHANGED formVars
    /\ UNCHANGED <<MONGODB_URL, cached, promises, transactions, sessions>>

\* updateCredits: one findOneAndUpdate({ _id }, { $inc: { creditBalance } },
\* { new: true }), "User credits update failed" when it returns null. Called
\* directly, or from createTransaction.
UpdateCredits(c, ok) ==
    /\ calls[c].pc = "store"
    /\ calls[c].op = "updateCredits" \/ calls[c].nested
    /\ LET id == calls[c].uid
           hit == ok /\ id \in DOMAIN users
           after == users[id].creditBalance + calls[c].delta
       IN /\ users' = IF hit THEN [users EXCEPT ![id].creditBalance = after]
                             ELSE users
          /\ calls' = [calls EXCEPT ![c] =
                Stored(IF hit THEN Credited(@, after) ELSE Throw(@))]
    /\ UNCHANGED formVars
    /\ UNCHANGED <<MONGODB_URL, cached, promises, transactions, sessions>>

\* Faulty variant of CreateTransaction: the inserted Transaction is returned
\* at once, updateCredits being started but not awaited.
CreateTransactionNoAwait(c, ok) ==
    /\ calls[c].pc = "store"
    /\ calls[c].op = "createTransaction"
    /\ ~calls[c].nested
    /\ LET id == Cardinality(transactions) + 1
       IN IF ok
          THEN /\ transactions' = transactions \cup
                     {[id |-> id, buyer |-> calls[c].uid, req |-> c,
                       plan |-> calls[c].plan.plan,
                       amount |-> calls[c].plan.amount,
                       credits |-> calls[c].plan.credits]}
               /\ calls' = [calls EXCEPT ![c].txn = id, ![c].nested = TRUE,
                                         ![c].ret = Value(id),
                                         ![c].storeOps = @ + 1,
                                         ![c].pc = "connect"]
          ELSE /\ calls' = [calls EXCEPT ![c] = Stored(Throw(@))]
               /\ UNCHANGED transactions
    /\ UNCHANGED formVars
    /\ UNCHANGED <<MONGODB_URL, cached, promises, users, sessions>>

\* createTransaction up to its call of updateCredits: Transaction.create,
\* then updateCredits(transaction.buyerId, transaction.credits) starts.
CreateTransaction(c, ok) ==
    /\ calls[c].pc = "store"
    /\ calls[c].op = "createTransaction"
    /\ ~calls[c].nested
    /\ LET id == Cardinality(transactions) + 1
       IN IF ok
          THEN /\ transactions' = transactions \cup
                     {[id |-> id, buyer |-> calls[c].uid, req |-> c,
                       plan |-> calls[c].plan.plan,
                       amount |-> calls[c].plan.amount,
                       credits |-> calls[c].plan.credits]}
               /\ calls' = [calls EXCEPT ![c].txn = id, ![c].nested = TRUE,
                                         ![c].storeOps = @ + 1,
                                         ![c].pc = "connect"]
          ELSE /\ calls' = [calls EXCEPT ![c] = Stored(Throw(@))]
               /\ UNCHANGED transactions
    /\ UNCHANGED formVars
    /\ UNCHANGED <<MONGODB_URL, cached, promises, users, sessions>>

\* Faulty variant of CreateTransactionReturn: a failed increment is
\* compensated by deleting the inserted Transaction.
CreateTransactionReturnCompensates(c) ==
    /\ calls[c].pc = "return"
    /\ LET failed == calls[c].ucRet.kind = "undefined"
       IN /\ transactions' = IF failed
                             THEN {t \in transactions : t.id # calls[c].txn}
                             ELSE transactions
          /\ calls' = [calls EXCEPT ![c].ret = IF failed THEN Undefined
                                               ELSE Value(calls[c].txn),
                                    ![c].pc = "done"]
    /\ UNCHANGED formVars
    /\ UNCHANGED <<MONGODB_URL, cached, promises, users, sessions>>

\* createTransaction after its await of updateCredits: whatever that
\* resolved to is dropped and the inserted Transaction is returned.
CreateTransactionReturn(c) ==
    /\ calls[c].pc = "return"
    /\ calls' = [calls EXCEPT ![c].ret = Value(calls[c].txn), ![c].pc = "done"]
    /\ UNCHANGED formVars
    /\ UNCHANGED <<MONGODB_URL, cached, promises, users, transactions, sessions>>

\* Faulty variant of CheckoutCredits: the amount is sent in major units.
CheckoutCreditsMajorUnits(c) ==
    /\ calls[c].pc = "session"
    /\ sessions' = Append(sessions,
              [req |-> c,
               line_items |-> <<[currency |-> "usd",
                                 unit_amount |-> calls[c].plan.amount,
                                 name |-> calls[c].plan.plan, quantity |-> 1]>>,
               metadata |-> [plan |-> calls[c].plan.plan,
                             credits |-> calls[c].plan.credits,
                             buyerId |-> calls[c].uid],
               mode |-> "payment"])
    /\ calls' = [calls EXCEPT ![c].pc = "awaitSession"]
    /\ UNCHANGED formVars
    /\ UNCHANGED <<MONGODB_URL, cached, promises, users, transactions>>

\* checkoutCredits up to its await: the session request sent to the provider.
CheckoutCredits(c) ==
    /\ calls[c].pc = "session"
    /\ LET amount == calls[c].plan.amount * 100
       IN sessions' = Append(sessions,
              [req |-> c,
               line_items |-> <<[currency |-> "usd", unit_amount |-> amount,
                                 name |-> calls[c].plan.plan, quantity |-> 1]>>,
               metadata |-> [plan |-> calls[c].plan.plan,
                             credits |-> calls[c].plan.credits,
                             buyerId |-> calls[c].uid],
               mode |-> "payment"])
    /\ calls' = [calls EXCEPT ![c].pc = "awaitSession"]
    /\ UNCHANGED formVars
    /\ UNCHANGED <<MONGODB_URL, cached, promises, users, transactions>>

\* checkoutCredits after its await: redirect(session.url), or the provider's
\* error, which nothing catches.
CheckoutRedirect(c, ok) ==
    /\ calls[c].pc = "awaitSession"
    /\ LET s == CHOOSE k \in 1..Len(sessions) : sessions[k].req = c
       IN calls' = [calls EXCEPT ![c].ret = IF ok THEN Redirect(s) ELSE Threw,
                                 ![c].pc = "done"]
    /\ UNCHANGED formVars
    /\ UNCHANGED <<MONGODB_URL, cached, promises, users, transactions, sessions>>

\* ------------------------------------------- server: the User collection

\* The _id the store gives to the document call c inserts: unused so far
\* and never reused.
NewUserId(c) == Cardinality(UserIds) + c

\* A request arrives for a server action that is given profile fields.
StartUser(o, id, user) ==
    /\ Len(calls) < MaxCalls
    /\ calls' = Append(calls, [NewCall(o, id, 0, NoPlan) EXCEPT !.user = user])
    /\ UNCHANGED formVars
    /\ UNCHANGED <<MONGODB_URL, cached, promises, users, transactions, sessions>>

\* createUser: User.create(user); the insert is rejected when clerkId, a
\* unique key, is already stored. The new document gets the initial balance.
CreateUser(c, ok) ==
    /\ calls[c].pc = "store"
    /\ calls[c].op = "createUser"
    /\ LET id == NewUserId(c)
           hit == ok /\ \A i \in DOMAIN users : users[i].clerkId # calls[c].uid
           newUser == [clerkId |-> calls[c].uid,
                       username |-> calls[c].user.username,
                       creditBalance |-> InitBalance]
       IN /\ users' = IF hit
                      THEN [i \in DOMAIN users \cup {id} |->
                              IF i = id THEN newUser ELSE users[i]]
                      ELSE users
          /\ calls' = [calls EXCEPT ![c] = Stored(
                IF hit
                THEN [calls[c] EXCEPT !.ret = Value(DocOf(users', id)),
                                      !.pc = "done"]
                ELSE Throw(@))]
    /\ UNCHANGED formVars
    /\ UNCHANGED <<MONGODB_URL, cached, promises, transactions, sessions>>

\* Faulty variant of UpdateUser: the document is found by one operation and
\* saved by a second one.
UpdateUserFindThenSave(c, ok) ==
    /\ calls[c].pc = "store"
    /\ calls[c].op = "updateUser"
    /\ LET found == {i \in DOMAIN users : users[i].clerkId = calls[c].uid}
           hit == ok /\ found # {}
           id == CHOOSE i \in found : TRUE
       IN /\ users' = IF hit
                      THEN [users EXCEPT ![id].username = calls[c].user.username]
                      ELSE users
          /\ calls' = [calls EXCEPT ![c] =
                IF hit
                THEN Stored(Stored([calls[c] EXCEPT
                                      !.ret = Value(DocOf(users', id)),
                                      !.pc = "done"]))
                ELSE Stored(Throw(@))]
    /\ UNCHANGED formVars
    /\ UNCHANGED <<MONGODB_URL, cached, promises, transactions, sessions>>

\* updateUser: one User.findOneAndUpdate({ clerkId }, user, { new: true }),
\* "User update failed" when it returns null.
UpdateUser(c, ok) ==
    /\ calls[c].pc = "store"
    /\ calls[c].op = "updateUser"
    /\ LET found == {i \in DOMAIN users : users[i].clerkId = calls[c].uid}
           hit == ok /\ found # {}
           id == CHOOSE i \in found : TRUE
       IN /\ users' = IF hit
                      THEN [users EXCEPT ![id].username = calls[c].user.username]
                      ELSE users
          /\ calls' = [calls EXCEPT ![c] = Stored(
                IF hit
                THEN [calls[c] EXCEPT !.ret = Value(DocOf(users', id)),
                                      !.pc = "done"]
                ELSE Throw(@))]
    /\ UNCHANGED formVars
    /\ UNCHANGED <<MONGODB_URL, cached, promises, transactions, sessions>>

\* deleteUser up to its second await: User.findOne({ clerkId }), "User not
\* found" when null; the document found is kept in userToDelete.
DeleteUserFind(c, ok) ==
    /\ calls[c].pc = "store"
    /\ calls[c].op = "deleteUser"
    /\ LET found == {i \in DOMAIN users : users[i].clerkId = calls[c].uid}
       IN calls' = [calls EXCEPT ![c] = Stored(
              IF ok /\ found # {}
              THEN [calls[c] EXCEPT
                      !.found = DocOf(users, CHOOSE i \in found : TRUE),
                      !.pc = "delete"]
              ELSE Throw(@))]
    /\ UNCHANGED formVars
    /\ UNCHANGED <<MONGODB_URL, cached, promises, users, transactions, sessions>>

\* deleteUser after its second await: User.findByIdAndDelete(userToDelete._id)
\* removes and returns the document as it is stored now, or returns null
\* when it is gone, and deleteUser returns that (revalidatePath changes
\* nothing modelled here).
DeleteUserDelete(c, ok) ==
    /\ calls[c].pc = "delete"
    /\ LET id == calls[c].found._id
       IN IF ~ok
          THEN /\ calls' = [calls EXCEPT ![c] = Stored(Throw(@))]
               /\ UNCHANGED users
          ELSE IF id \in DOMAIN users
          THEN /\ users' = [i \in DOMAIN users \ {id} |-> users[i]]
               /\ calls' = [calls EXCEPT ![c] = Stored(
                     [calls[c] EXCEPT !.ret = Value(DocOf(users, id)),
                                      !.pc = "done"])]
          ELSE /\ calls' = [calls EXCEPT ![c] = Stored(
                     [calls[c] EXCEPT !.ret = ReturnedNull, !.pc = "done"])]
               /\ UNCHANGED users
    /\ UNCHANGED formVars
    /\ UNCHANGED <<MONGODB_URL, cached, promises, transactions, sessions>>

\* The requests that read or write the User collection, interleaved.
NextUsers ==
    \/ \E i \in UserIds, k \in {0, 1}, user \in UserParams :
          StartUser("createUser", ClerkIdOf(i) + k, user)
    \/ \E i \in UserIds, user \in UserParams :
          StartUser("updateUser", ClerkIdOf(i), user)
    \/ \E i \in UserIds : Start("deleteUser", ClerkIdOf(i), 0, NoPlan)
    \/ \E i \in UserIds : Start("getUserById", ClerkIdOf(i), 0, NoPlan)
    \/ \E i \in UserIds, d \in Deltas : Start("updateCredits", i, d, NoPlan)
    \/ \E i \in UserIds :
          \E p \in {q \in Plans : q.plan = "Pro"} :
             Start("createTransaction", i, p.credits, p)
    \/ \E c \in CallIds : ConnectEnter(c)
    \/ \E p \in 1..Len(promises), ok \in BOOLEAN : MongooseConnectSettles(p, ok)
    \/ \E c \in CallIds : ConnectResume(c)
    \/ \E c \in CallIds, ok \in BOOLEAN : CreateUser(c, ok)
    \/ \E c \in CallIds, ok \in BOOLEAN : GetUserById(c, ok)
    \/ \E c \in CallIds, ok \in BOOLEAN : UpdateUser(c, ok)
    \/ \E c \in CallIds, ok \in BOOLEAN : DeleteUserFind(c, ok)
    \/ \E c \in CallIds, ok \in BOOLEAN : DeleteUserDelete(c, ok)
    \/ \E c \in CallIds, ok \in BOOLEAN : UpdateCredits(c, ok)
    \/ \E c \in CallIds, ok \in BOOLEAN : CreateTransaction(c, ok)
    \/ \E c \in CallIds : CreateTransactionReturn(c)

NextServer ==
    \/ Start("connectToDatabase", 0, 0, NoPlan)
    \/ \E i \in AnyId : Start("getUserById", ClerkIdOf(i), 0, NoPlan)
    \/ \E i \in AnyId, d \in Deltas : Start("updateCredits", i, d, NoPlan)
    \/ \E i \in AnyId, p \in Plans : Start("createTransaction", i, p.credits, p)
    \/ \E i \in AnyId, p \in Plans : Start("checkoutCredits", i, 0, p)
    \/ \E c \in CallIds : ConnectEnter(c)
    \/ \E p \in 1..Len(promises), ok \in BOOLEAN : MongooseConnectSettles(p, ok)
    \/ \E c \in CallIds : ConnectResume(c)
    \/ \E c \in CallIds, ok \in BOOLEAN : GetUserById(c, ok)
    \/ \E c \in CallIds, ok \in BOOLEAN : UpdateCredits(c, ok)
    \/ \E c \in CallIds, ok \in BOOLEAN : CreateTransaction(c, ok)
    \/ \E c \in CallIds : CreateTransactionReturn(c)
    \/ \E c \in CallIds : CheckoutCredits(c)
    \/ \E c \in CallIds, ok \in BOOLEAN : CheckoutRedirect(c, ok)



\* ------------------------------------------------------ form: value spaces

\* The delay onInputChangeHandler passes to debounce, in ms.
DebounceMs == 1000

Types == {"restore", "removeBackground", "fill", "remove", "recolor"}
AspectRatioKeys == {"1:1", "16:9"}
\* Texts the prompt input and the color input may hold.
Texts(fieldName) == IF fieldName = "prompt" THEN {"cat", "dog"} ELSE {"red"}

EmptyMap == [k \in {} |-> ""]
\* A configuration value: null, or a mapping kind -> parameter -> value.
Null == [null |-> TRUE, obj |-> EmptyMap]
Obj(m) == [null |-> FALSE, obj |-> m]

\* An image value: null, or an object with the fields the form reads.
NullImage == [null |-> TRUE, publicId |-> 0, aspectRatio |-> ""]
StoredImage == [null |-> FALSE, publicId |-> 1, aspectRatio |-> ""]

\* transformationTypes[t].config: the template a kind seeds the pending
\* configuration with.
TemplateConfig(t) ==
    CASE t = "restore" -> [restore |-> [enabled |-> "true"]]
      [] t = "removeBackground" -> [removeBackground |-> [enabled |-> "true"]]
      [] t = "fill" -> [fillBackground |-> [enabled |-> "true"]]
      [] t = "remove" -> [remove |-> [prompt |-> "", removeShadow |-> "true"]]
      [] t = "recolor" -> [recolor |-> [prompt |-> "", to |-> ""]]

\* deepMergeObjects(obj1, obj2): obj2 overlaid with obj1, objects merged key
\* by key, obj1 winning where both hold a value; a null obj2 gives obj1.
DeepMergeObjects(obj1, obj2) ==
    IF obj2.null THEN obj1
    ELSE IF obj1.null THEN obj2
    ELSE LET a == obj1.obj
             b == obj2.obj
             inner(k) == [q \in DOMAIN a[k] \cup DOMAIN b[k] |->
                            IF q \in DOMAIN a[k] THEN a[k][q] ELSE b[k][q]]
         IN Obj([k \in DOMAIN a \cup DOMAIN b |->
                    IF k \in DOMAIN a /\ k \in DOMAIN b THEN inner(k)
                    ELSE IF k \in DOMAIN a THEN a[k] ELSE b[k]])

\* The updater the debounced callback hands to setNewTransformation:
\* { ...prevState, [t]: { ...prevState?.[t], [key]: value } }.
SetField(prevState, t, key, value) ==
    LET o == IF prevState.null THEN EmptyMap ELSE prevState.obj
        old == IF t \in DOMAIN o THEN o[t] ELSE EmptyMap
        new == [q \in DOMAIN old \cup {key} |-> IF q = key THEN value ELSE old[q]]
    IN Obj([k \in DOMAIN o \cup {t} |-> IF k = t THEN new ELSE o[k]])

Abs(x) == IF x < 0 THEN -x ELSE x

\* Faulty variant of InsufficientCreditsShown: only a balance below zero
\* counts as insufficient.
InsufficientCreditsBelowZero == creditBalance < 0

\* Faulty variant of InsufficientCreditsShown: the fee's sign is not dropped.
InsufficientCreditsSigned == creditBalance < creditFee

\* The condition under which the form renders <InsufficientCreditsModal />.
InsufficientCreditsShown == creditBalance < Abs(creditFee)

\* <InsufficientCreditsModal />: while it is rendered it covers the form, so
\* the form receives user events only when it is not shown.
FormInteractive == ~InsufficientCreditsShown

\* Faulty variant of ApplyEnabled: only a transformation in flight disables.
ApplyEnabledWhileIdle == ~isTransforming

\* The Apply Transformation button is not disabled.
ApplyEnabled == ~(isTransforming \/ newTransformation.null)

\* The useEffect on [image, transformationType.config, type], run with the
\* image img and the pending configuration nt: the pending configuration
\* after it.
ImageEffect(img, nt) ==
    IF ~img.null /\ type \in {"restore", "removeBackground"}
    THEN Obj(TemplateConfig(type))
    ELSE nt

NoTyped == [key |-> "", value |-> ""]
NoTimer == [armed |-> FALSE, left |-> 0, t |-> "", key |-> "", value |-> ""]

\* debounce(callback, delay): whatever callback was waiting is dropped and
\* this one is held until delay ms have passed without another call.
Debounce(t, key, value, delay) ==
    [armed |-> TRUE, left |-> delay, t |-> t, key |-> key, value |-> value]

InitForm ==
    /\ type \in Types
    /\ action \in {"Add", "Update"}
    /\ data = IF action = "Update" THEN StoredImage ELSE NullImage
    /\ creditBalance \in -MaxBalance..MaxBalance
    /\ creditFee \in -MaxFee..MaxFee
    /\ image = data
    /\ newTransformation = ImageEffect(data, Null)
    /\ isSubmitting = FALSE
    /\ isTransforming = FALSE
    /\ transformationConfig \in
          {Null} \cup (IF action = "Update" THEN {Obj(TemplateConfig(type))} ELSE {})
    /\ timer = NoTimer
    /\ deductions = <<>>
    /\ applies = 0
    /\ appliedNull = FALSE
    /\ burst = 0
    /\ lastTyped = NoTyped
    /\ commits = 0

\* No form is mounted: the state of the form's variables in Spec.
NoForm ==
    /\ type = "restore"
    /\ action = "Add"
    /\ data = NullImage
    /\ creditBalance = 0
    /\ creditFee = 0
    /\ image = NullImage
    /\ newTransformation = Null
    /\ isSubmitting = FALSE
    /\ isTransforming = FALSE
    /\ transformationConfig = Null
    /\ timer = NoTimer
    /\ deductions = <<>>
    /\ applies = 0
    /\ appliedNull = FALSE
    /\ burst = 0
    /\ lastTyped = NoTyped
    /\ commits = 0

\* The server is not running: the state of the server's variables in SpecForm.
NoServer ==
    /\ MONGODB_URL = TRUE
    /\ cached = [conn |-> 0, promise |-> 0]
    /\ promises = <<>>
    /\ users = [i \in UserIds |->
                  [clerkId |-> ClerkIdOf(i), username |-> "ann",
                   creditBalance |-> InitBalance]]
    /\ transactions = {}
    /\ sessions = <<>>
    /\ calls = <<>>

props == <<type, action, data, creditBalance, creditFee>>
inputHistory == <<burst, lastTyped, commits>>

\* --------------------------------------------------- form: the operations

\* Save Image is clicked: onSubmit up to its await. Without an image the
\* function runs through and isSubmitting ends false again.
OnSubmit ==
    /\ ~isSubmitting
    /\ isSubmitting' = ~(data.null /\ image.null)
    /\ UNCHANGED serverVars
    /\ UNCHANGED <<props, image, newTransformation, isTransforming,
                   transformationConfig, timer, deductions, applies, appliedNull,
                   inputHistory>>

\* onSubmit after its await of addImage or updateImage: a stored new image
\* resets the form's image to data, and the effect runs on the new image.
OnSubmitResume(ok) ==
    /\ isSubmitting
    /\ image' = IF action = "Add" /\ ok THEN data ELSE image
    /\ newTransformation' = IF image' # image
                            THEN ImageEffect(image', newTransformation)
                            ELSE newTransformation
    /\ isSubmitting' = FALSE
    /\ UNCHANGED serverVars
    /\ UNCHANGED <<props, isTransforming, transformationConfig, timer,
                   deductions, applies, appliedNull, inputHistory>>

\* Faulty variant of OnSelectFieldHandler: the selection is written to the
\* committed configuration as well as to the pending one.
OnSelectFieldHandlerCommits(value) ==
    /\ type = "fill"
    /\ image' = [null |-> FALSE, publicId |-> image.publicId, aspectRatio |-> value]
    /\ newTransformation' = ImageEffect(image', Obj(TemplateConfig(type)))
    /\ transformationConfig' = newTransformation'
    /\ UNCHANGED serverVars
    /\ UNCHANGED <<props, isSubmitting, isTransforming, timer, deductions,
                   applies, appliedNull, inputHistory>>

\* An aspect ratio is selected (the select is rendered for type fill only).
OnSelectFieldHandler(value) ==
    /\ type = "fill"
    /\ image' = [null |-> FALSE, publicId |-> image.publicId, aspectRatio |-> value]
    /\ newTransformation' = ImageEffect(image', Obj(TemplateConfig(type)))
    /\ UNCHANGED serverVars
    /\ UNCHANGED <<props, isSubmitting, isTransforming, transformationConfig,
                   timer, deductions, applies, appliedNull, inputHistory>>

\* MediaUploder stores an uploaded asset in the image state, and the effect
\* runs on the new image.
OnUpload ==
    /\ image' = [null |-> FALSE, publicId |-> 1, aspectRatio |-> image.aspectRatio]
    /\ newTransformation' = ImageEffect(image', newTransformation)
    /\ UNCHANGED serverVars
    /\ UNCHANGED <<props, isSubmitting, isTransforming, transformationConfig,
                   timer, deductions, applies, appliedNull, inputHistory>>

\* Faulty variant of OnInputChangeHandler: the pending configuration is
\* updated on every change, without debounce.
OnInputChangeHandlerUndebounced(fieldName, value, t) ==
    /\ \/ fieldName = "prompt" /\ type \in {"remove", "recolor"} /\ t = type
       \/ fieldName = "color" /\ type = "recolor" /\ t = "recolor"
    /\ burst < MaxBurst
    /\ newTransformation' =
          SetField(newTransformation, t,
                   IF fieldName = "prompt" THEN "prompt" ELSE "to", value)
    /\ burst' = burst + 1
    /\ commits' = commits + 1
    /\ lastTyped' = NoTyped
    /\ UNCHANGED serverVars
    /\ UNCHANGED <<props, image, isSubmitting, isTransforming,
                   transformationConfig, timer, deductions, applies, appliedNull>>

\* The prompt input (types remove and recolor) or the color input (type
\* recolor) changes: the update of the pending configuration is debounced.
OnInputChangeHandler(fieldName, value, t) ==
    /\ \/ fieldName = "prompt" /\ type \in {"remove", "recolor"} /\ t = type
       \/ fieldName = "color" /\ type = "recolor" /\ t = "recolor"
    /\ timer.armed => burst < MaxBurst
    /\ timer' = Debounce(t, IF fieldName = "prompt" THEN "prompt" ELSE "to",
                         value, DebounceMs)
    /\ burst' = IF timer.armed THEN burst + 1 ELSE 1
    /\ commits' = IF timer.armed THEN commits ELSE 0
    /\ lastTyped' = [key |-> IF fieldName = "prompt" THEN "prompt" ELSE "to",
                     value |-> value]
    /\ UNCHANGED serverVars
    /\ UNCHANGED <<props, image, newTransformation, isSubmitting, isTransforming,
                   transformationConfig, deductions, applies, appliedNull>>

\* Time passes while a debounced callback waits.
Tick ==
    /\ timer.armed
    /\ timer.left > 0
    /\ LET step == DebounceMs \div TicksPerWindow
       IN timer' = [timer EXCEPT !.left = IF @ > step THEN @ - step ELSE 0]
    /\ UNCHANGED serverVars
    /\ UNCHANGED <<props, image, newTransformation, isSubmitting, isTransforming,
                   transformationConfig, deductions, applies, appliedNull,
                   inputHistory>>

\* The delay has passed: the held callback runs and updates the pending
\* configuration.
DebounceFires ==
    /\ timer.armed
    /\ timer.left = 0
    /\ newTransformation' =
          SetField(newTransformation, timer.t, timer.key, timer.value)
    /\ timer' = NoTimer
    /\ commits' = commits + 1
    /\ lastTyped' = NoTyped
    /\ UNCHANGED serverVars
    /\ UNCHANGED <<props, image, isSubmitting, isTransforming,
                   transformationConfig, deductions, applies, appliedNull, burst>>

\* Faulty variant of OnTransformHandler: no updateCredits call is made.
OnTransformHandlerFree ==
    /\ ApplyEnabled
    /\ applies < MaxApplies
    /\ isTransforming' = TRUE
    /\ transformationConfig' =
          DeepMergeObjects(newTransformation, transformationConfig)
    /\ newTransformation' = Null
    /\ applies' = applies + 1
    /\ appliedNull' = (appliedNull \/ newTransformation.null)
    /\ UNCHANGED serverVars
    /\ UNCHANGED <<props, image, isSubmitting, timer, deductions, inputHistory>>

\* Apply Transformation is clicked.
OnTransformHandler ==
    /\ ApplyEnabled
    /\ applies < MaxApplies
    /\ isTransforming' = TRUE
    /\ transformationConfig' =
          DeepMergeObjects(newTransformation, transformationConfig)
    /\ newTransformation' = Null
    /\ deductions' = Append(deductions, [userId |-> 1, creditFee |-> creditFee])
    /\ applies' = applies + 1
    /\ appliedNull' = (appliedNull \/ newTransformation.null)
    /\ UNCHANGED serverVars
    /\ UNCHANGED <<props, image, isSubmitting, timer, inputHistory>>

\* TransformedImage reports the transformed image loaded.
OnTransformed ==
    /\ isTransforming
    /\ isTransforming' = FALSE
    /\ UNCHANGED serverVars
    /\ UNCHANGED <<props, image, newTransformation, isSubmitting,
                   transformationConfig, timer, deductions, applies, appliedNull,
                   inputHistory>>

\* The user's events reach the form only while it is interactive; awaits
\* resuming, timers and the image loading do not depend on it.
NextForm ==
    \/ FormInteractive /\ OnSubmit
    \/ \E ok \in BOOLEAN : OnSubmitResume(ok)
    \/ \E value \in AspectRatioKeys : FormInteractive /\ OnSelectFieldHandler(value)
    \/ FormInteractive /\ OnUpload
    \/ \E fieldName \in {"prompt", "color"}, t \in Types :
          \E value \in Texts(fieldName) :
             FormInteractive /\ OnInputChangeHandler(fieldName, value, t)
    \/ Tick
    \/ DebounceFires
    \/ FormInteractive /\ OnTransformHandler
    \/ OnTransformed

\* ------------------------------------------------------ specifications

Init == InitServer /\ NoForm
Spec == Init /\ [][NextServer]_vars
SpecUsers == Init /\ [][NextUsers]_vars

FormInit == InitForm /\ NoServer
SpecForm == FormInit /\ [][NextForm]_vars

\* ------------------------------------------------------ server: the claims

\* TRUE iff call c's credit increment has been applied to user u.
Applied(c, u) ==
    /\ calls[c].uid = u
    /\ \/ calls[c].op = "updateCredits" /\ calls[c].ret.kind = "value"
       \/ calls[c].op = "createTransaction" /\ calls[c].ucRet.kind = "value"

\* The sum of the deltas of the calls in 1..n, other than call x, whose
\* increment has been applied to user u.
RECURSIVE SumApplied(_, _, _)
SumApplied(n, u, x) ==
    IF n = 0 THEN 0
    ELSE SumApplied(n - 1, u, x)
         + (IF n # x /\ Applied(n, u) THEN calls[n].delta ELSE 0)

\* The step in which call c leaves position pc.
Leaves(c, pc) == calls[c].pc = pc /\ calls'[c].pc # pc

\* C1: whatever the interleaving of the ledger calls against a user, the
\* stored balance is the initial balance plus the sum of the deltas of the
\* calls that went through (nothing lost, no floor at zero), and each
\* updateCredits call returns the balance as its own increment left it.
C1_LedgerExact ==
    \A u \in UserIds :
        users[u].creditBalance = InitBalance + SumApplied(Len(calls), u, 0)
C1_ReturnsOwnIncrement ==
    \A c \in CallIds :
        (calls[c].op = "updateCredits" /\ Leaves(c, "store")
            /\ calls'[c].ret.kind = "value")
        => /\ calls'[c].ret.val = users'[calls[c].uid].creditBalance
           /\ calls'[c].ret.val = users[calls[c].uid].creditBalance + calls[c].delta
C1_AtomicLedger == []C1_LedgerExact /\ [][C1_ReturnsOwnIncrement]_vars

\* Two deductions against the same user have both gone through, the later
\* arrival first, and the balance has ended below zero.
C1_Witness ==
    /\ Len(calls) = 2
    /\ \A c \in CallIds : calls[c].op = "updateCredits" /\ calls[c].uid = 1
                          /\ calls[c].delta < 0 /\ calls[c].ret.kind = "value"
    /\ calls[2].ret.val > calls[1].ret.val
    /\ users[1].creditBalance < 0

\* TRUE iff createTransaction call c inserted its Transaction and its
\* credit increment then failed.
GrantFailed(c) ==
    /\ calls[c].op = "createTransaction"
    /\ calls[c].txn # 0
    /\ calls[c].ucRet.kind = "undefined"

\* C2: when createTransaction's insert succeeds and the increment then
\* fails, the Transaction stays stored and the buyer's balance is what the
\* other calls made it; the failing step changes no document, and no
\* Transaction is ever deleted (no compensation) or inserted twice (no retry).
C2_RecordedButUngranted ==
    \A c \in CallIds :
        GrantFailed(c) =>
            /\ Cardinality({t \in transactions : t.req = c /\ t.id = calls[c].txn}) = 1
            /\ \A u \in UserIds : calls[c].uid = u =>
                   users[u].creditBalance
                       = InitBalance + SumApplied(Len(calls), u, c)
C2_NoCompensation ==
    /\ transactions \subseteq transactions'
    /\ \A c \in CallIds :
          (calls[c].nested /\ Leaves(c, "store") /\ calls'[c].ucRet.kind = "undefined")
          => users' = users /\ transactions' = transactions
    /\ \A c \in CallIds :
          (calls[c].pc = "return" \/ calls[c].pc = "done")
          => {t \in transactions' : t.req = c} = {t \in transactions : t.req = c}
C2_NonAtomicGap == []C2_RecordedButUngranted /\ [][C2_NoCompensation]_vars

\* A createTransaction for a buyer id no user has has returned: its
\* Transaction is stored and nothing was granted.
C2_Witness ==
    \E c \in CallIds :
        /\ GrantFailed(c)
        /\ calls[c].pc = "done"
        /\ calls[c].uid \notin UserIds
        /\ \E t \in transactions : t.req = c

\* C3: once createTransaction has returned with both steps done, exactly
\* one Transaction of the call is stored and the buyer's balance holds the
\* call's credits on top of what the other calls made it; the grant is never
\* still pending when createTransaction returns.
C3_GrantVisibleOnReturn ==
    \A c \in CallIds :
        (calls[c].op = "createTransaction" /\ calls[c].ret.kind = "value")
        => /\ calls[c].ucRet.kind # "pending"
           /\ calls[c].ucRet.kind = "value" =>
                /\ Cardinality({t \in transactions : t.req = c}) = 1
                /\ users[calls[c].uid].creditBalance
                     = InitBalance + SumApplied(Len(calls), calls[c].uid, c)
                       + calls[c].plan.credits

\* A createTransaction has returned its Transaction with the credits granted
\* while another ledger call was applied to the same buyer.
C3_Witness ==
    \E c, o \in CallIds :
        /\ c # o
        /\ calls[c].op = "createTransaction"
        /\ calls[c].ret.kind = "value"
        /\ calls[c].ucRet.kind = "value"
        /\ calls[o].op = "updateCredits"
        /\ Applied(o, calls[c].uid)

\* C4: with the connection string configured, mongoose.connect is called
\* at most once, and every connectToDatabase that has returned handed back
\* the one cached handle.
C4_SingleConnection ==
    MONGODB_URL =>
        /\ Len(promises) <= 1
        /\ \A c \in CallIds :
              calls[c].connRet # 0 => calls[c].connRet = cached.conn
        /\ \A c, d \in CallIds :
              (calls[c].connRet # 0 /\ calls[d].connRet # 0)
              => calls[c].connRet = calls[d].connRet

\* Two callers that both started before the connection resolved have both
\* been handed the handle.
C4_Witness ==
    /\ Len(calls) = 2
    /\ \A c \in CallIds : calls[c].awaitP # 0 /\ calls[c].connRet # 0

\* C5: getUserById never throws to its caller; it resolves to undefined
\* when no user has the subject id, and equally when the connection or the
\* find fails; and no step of it changes a User document.
C5_NotFoundIsUndefined ==
    \A c \in CallIds :
        calls[c].op = "getUserById" =>
            /\ calls[c].ret.kind \in {"pending", "undefined", "value"}
            /\ (calls[c].pc = "done"
                /\ \A i \in DOMAIN users : users[i].clerkId # calls[c].uid)
               => calls[c].ret.kind = "undefined"
            /\ (calls[c].pc = "done" /\ calls[c].connRet = 0)
               => calls[c].ret.kind = "undefined"
C5_ReadOnly ==
    \A c \in CallIds :
        (calls[c].op = "getUserById" /\ calls'[c] # calls[c]) => users' = users
SessionsOf(c) == {k \in 1..Len(sessions) : sessions[k].req = c}

\* C7: checkoutCredits requests exactly one session, of one line item of
\* quantity 1 priced at amount x 100 minor units (10 gives 1000), with the
\* metadata {plan, credits, buyerId} of its argument; it redirects to the
\* session it got back; and it stores no Transaction and changes no balance.
C7_OneSession ==
    \A c \in CallIds :
        (calls[c].op = "checkoutCredits" /\ calls[c].pc # "session") =>
            /\ Cardinality(SessionsOf(c)) = 1
            /\ \A k \in SessionsOf(c) :
                  /\ Len(sessions[k].line_items) = 1
                  /\ sessions[k].line_items[1].quantity = 1
                  /\ sessions[k].line_items[1].unit_amount
                        = 100 * calls[c].plan.amount
                  /\ calls[c].plan.amount = 10
                        => sessions[k].line_items[1].unit_amount = 1000
                  /\ sessions[k].metadata
                        = [plan |-> calls[c].plan.plan,
                           credits |-> calls[c].plan.credits,
                           buyerId |-> calls[c].uid]
                  /\ calls[c].ret.kind = "redirect" => calls[c].ret.val = k
            /\ calls[c].txn = 0
            /\ \A t \in transactions : t.req # c
C7_NoPersistence ==
    \A c \in CallIds :
        (calls[c].op = "checkoutCredits" /\ calls'[c] # calls[c])
        => users' = users /\ transactions' = transactions
C7_CheckoutSession == []C7_OneSession /\ [][C7_NoPersistence]_vars

\* A checkout of the plan priced 10 has redirected to its session.
C7_Witness ==
    \E c \in CallIds :
        /\ calls[c].op = "checkoutCredits"
        /\ calls[c].plan.amount = 10
        /\ calls[c].ret.kind = "redirect"
        /\ sessions[calls[c].ret.val].line_items[1].unit_amount = 1000

\* -------------------------------------------------------- form: the claims

\* C6: in every render the insufficient-credits interstitial is shown
\* exactly when the balance is below the fee taken without its sign, for
\* fees below, at and above zero.
C6_InterstitialIffBelowFee ==
    InsufficientCreditsShown
        <=> (creditBalance < creditFee \/ creditBalance < -creditFee)

\* The interstitial is shown, over a form rendered with a stored image, for
\* a negative fee that the balance is not below as a signed number.
C6_Witness ==
    /\ creditFee < 0
    /\ creditBalance >= 0
    /\ InsufficientCreditsShown
    /\ ~image.null

\* C8: the input-handler invocations of one debounce window lead to exactly
\* one commit into the pending configuration; it happens once the delay has
\* run out, and it writes the field and value of the last invocation; the
\* invocations themselves leave the pending configuration as it is.
C8_OneCommitPerWindow ==
    /\ commits <= 1
    /\ timer.armed =>
          /\ commits = 0
          /\ burst >= 1
          /\ timer.key = lastTyped.key
          /\ timer.value = lastTyped.value
    /\ (~timer.armed /\ burst > 0) => commits = 1
C8_CommitIsLastValue ==
    /\ commits' = commits + 1 =>
          /\ timer.armed
          /\ timer.left = 0
          /\ newTransformation' =
                SetField(newTransformation, timer.t, lastTyped.key, lastTyped.value)
    /\ (burst' # burst \/ lastTyped' # lastTyped) /\ commits' # commits + 1
          => newTransformation' = newTransformation
C8_TrailingDebounce == []C8_OneCommitPerWindow /\ [][C8_CommitIsLastValue]_vars

\* Five invocations fell into one window, the window has run out, and the
\* one commit has put a typed value into the pending configuration.
C8_Witness ==
    /\ burst = 5
    /\ commits = 1
    /\ ~timer.armed
    /\ ~newTransformation.null
    /\ \E k \in DOMAIN newTransformation.obj :
          \E q \in DOMAIN newTransformation.obj[k] :
             newTransformation.obj[k][q] \in Texts("prompt") \cup Texts("color")

\* C9: Apply Transformation is enabled only with a pending configuration
\* and no transformation in flight, and no run of onTransformHandler has
\* read a null pending configuration.
C9_ApplyNeedsPending ==
    /\ ApplyEnabled => (~newTransformation.null /\ ~isTransforming)
    /\ ~appliedNull

\* After one transformation was applied and has loaded, a newly staged
\* pending configuration has enabled the button again.
C9_Witness ==
    /\ applies >= 1
    /\ ApplyEnabled
    /\ ~newTransformation.null

\* C10: every run of onTransformHandler commits the merge of the pending
\* into the committed configuration, clears the pending configuration and
\* issues one updateCredits(userId, creditFee); the deductions issued are as
\* many as the runs; and a run starts only from a staged pending
\* configuration and leaves the button disabled.
C10_OneDeductionPerApply ==
    /\ Len(deductions) = applies
    /\ \A i \in 1..Len(deductions) :
          deductions[i] = [userId |-> 1, creditFee |-> creditFee]
C10_ApplyStep ==
    applies' # applies =>
        /\ applies' = applies + 1
        /\ ~newTransformation.null
        /\ transformationConfig'
              = DeepMergeObjects(newTransformation, transformationConfig)
        /\ newTransformation'.null
        /\ deductions' = Append(deductions, [userId |-> 1, creditFee |-> creditFee])
        /\ ~ApplyEnabled'
C10_ApplyTransformation == []C10_OneDeductionPerApply /\ [][C10_ApplyStep]_vars

\* Two transformations were applied, the second from a pending
\* configuration staged after the first, and two deductions were issued.
C10_Witness ==
    /\ applies = 2
    /\ Len(deductions) = 2
    /\ newTransformation.null
    /\ ~transformationConfig.null

\* C11: while the balance is below the fee taken without its sign, no run
\* of onTransformHandler has happened, no transformation is in flight and
\* no updateCredits deduction has been issued by the form.
C11_NoApplyWhenInsufficient ==
    (creditBalance < creditFee \/ creditBalance < -creditFee)
        => /\ applies = 0
           /\ ~appliedNull
           /\ deductions = <<>>
           /\ ~isTransforming
           /\ transformationConfig.null \/ action = "Update"

\* The balance is insufficient while a pending configuration is staged and
\* the Apply Transformation button itself is not disabled.
C11_Witness ==
    /\ creditBalance < Abs(creditFee)
    /\ ~newTransformation.null
    /\ ApplyEnabled
    /\ applies = 0

\* C12: transformationConfig changes only in a run of onTransformHandler,
\* which sets it to the merge of the pending configuration into the
\* committed one; every other step leaves it unchanged, and a step that
\* changes the image state, the pending configuration or the submit flag
\* without being such a run changes neither the transforming flag nor the
\* deductions issued nor the component's props.
C12_CommitOnlyOnApply ==
    [][ /\ transformationConfig' # transformationConfig
           => /\ applies' = applies + 1
              /\ transformationConfig' =
                    DeepMergeObjects(newTransformation, transformationConfig)
              /\ newTransformation'.null
        /\ applies' = applies
           => /\ transformationConfig' = transformationConfig
              /\ deductions' = deductions
        /\ ( /\ applies' = applies
             /\ \/ image' # image
                \/ newTransformation' # newTransformation
                \/ isSubmitting' # isSubmitting )
           => UNCHANGED <<transformationConfig, isTransforming, deductions, props>>
      ]_vars

\* On an Add page an image was uploaded, a pending configuration is staged
\* and Save Image is submitting, while nothing has been committed.
C12_Witness ==
    /\ action = "Add"
    /\ applies = 0
    /\ ~image.null
    /\ ~newTransformation.null
    /\ isSubmitting
    /\ transformationConfig.null

\* C14: once a connection attempt has been started its promise stays the
\* cached one, whatever it settles to. If the attempt is rejected, it is the
\* only attempt ever made, cached.conn stays null, and every call that goes
\* through connectToDatabase fails: connectToDatabase itself throws, a
\* server action never reaches its store operation and resolves to
\* undefined, and the store is left as it was.
C14_RejectionStaysCached ==
    /\ []( (\E p \in 1..Len(promises) : promises[p] = "rejected")
            => /\ Len(promises) = 1
               /\ cached = [conn |-> 0, promise |-> 1]
               /\ transactions = {}
               /\ \A u \in UserIds : users[u].creditBalance = InitBalance
               /\ \A c \in CallIds :
                     calls[c].op # "checkoutCredits"
                     => /\ calls[c].connRet = 0
                        /\ calls[c].pc \in {"connect", "awaitConn", "done"}
                        /\ calls[c].pc = "done"
                           => /\ calls[c].awaitP = 1
                              /\ calls[c].ret =
                                    IF calls[c].op = "connectToDatabase"
                                    THEN Threw ELSE Undefined )
    /\ [][cached.promise # 0 => cached'.promise = cached.promise]_vars

\* The attempt was rejected, and a direct connectToDatabase call and a
\* server action have both awaited the cached promise and failed.
C14_Witness ==
    /\ promises = <<"rejected">>
    /\ Len(calls) = 2
    /\ calls[1].op = "connectToDatabase" /\ calls[1].ret = Threw
    /\ calls[2].op = "updateCredits" /\ calls[2].pc = "done"
    /\ calls[2].awaitP = 1 /\ calls[2].ret = Undefined

\* The server actions that issue a single document operation, and those
\* that issue a second one after the first has succeeded.
SingleOps == {"createUser", "getUserById", "updateUser", "updateCredits"}
DoubleOps == {"deleteUser", "createTransaction"}

\* A call that has returned after connectToDatabase gave it the connection.
Returned(c) == calls[c].pc = "done" /\ calls[c].connRet # 0

\* C13 as stated: every persistence call that acquired the connection and
\* returned has issued exactly one document operation.
C13_ExactlyOneStoreOp ==
    \A c \in CallIds : Returned(c) => calls[c].storeOps = 1

\* C13 as amended: createUser, getUserById, updateUser and updateCredits
\* issue exactly one document operation between acquiring the connection
\* and returning. deleteUser issues its findOne and then, only when that
\* found a document, a findByIdAndDelete; createTransaction issues its
\* insert and then, only when that succeeded, the findOneAndUpdate of
\* updateCredits. No call issues more than two, and none issues one before
\* it has the connection.
C13_StoreOpsPerCall ==
    \A c \in CallIds :
       /\ calls[c].storeOps \in 0..2
       /\ calls[c].connRet = 0 => calls[c].storeOps = 0
       /\ calls[c].op \in SingleOps
          => /\ calls[c].storeOps <= 1
             /\ Returned(c) => calls[c].storeOps = 1
       /\ (calls[c].op = "deleteUser" /\ Returned(c))
          => /\ calls[c].storeOps \in {1, 2}
             /\ calls[c].storeOps = 2 <=> calls[c].found # NoDoc
             /\ calls[c].storeOps = 1 => calls[c].ret = Undefined
       /\ (calls[c].op = "createTransaction" /\ Returned(c))
          => /\ calls[c].storeOps \in {1, 2}
             /\ calls[c].storeOps = 2 <=> calls[c].txn # 0
             /\ calls[c].storeOps = 1 => calls[c].ret = Undefined

\* Another request's operation fell between the two operations of a
\* deleteUser call: the document its findByIdAndDelete returned is not the
\* one its findOne had found.
C13_Witness ==
    \E c \in CallIds :
       /\ calls[c].op = "deleteUser"
       /\ Returned(c)
       /\ calls[c].storeOps = 2
       /\ calls[c].ret.kind = "value"
       /\ calls[c].ret.val # calls[c].found

====
